---- MODULE Spec2Model ----
(***************************************************************************)
(* AeroFace: the lounge visit state machine (db/visit.py), the template    *)
(* store (db/store_embedding.py), the embedder wrappers                    *)
(* (face/embedding.py) and the /register and /verify handlers (api.py).    *)
(*                                                                         *)
(* Time is counted in ticks of 1/TicksPerSec second.  PostgreSQL's NOW()   *)
(* is the start time of the current transaction; psycopg2 opens the        *)
(* transaction at the first execute of a connection, so the SELECT, the    *)
(* UPDATE and the INSERT default of one record_lounge_visit call all see   *)
(* the same NOW().  Connections run at READ COMMITTED: a SELECT sees the   *)
(* rows committed so far, and a write followed at once by commit is one    *)
(* atomic step.                                                            *)
(***************************************************************************)
EXTENDS Integers, Sequences, FiniteSets, TLC

\* ---------------------------------------------------------------- bounds
MaxCalls == 3          \* record_lounge_visit calls / API requests in a run
MaxTicks == 2          \* clock advances in a run
TicksPerSec == 2       \* clock resolution: ticks per second
MaxReqs == 3           \* /register and /verify requests in a run
MaxShots == 2          \* images in one multi-shot registration
Unit == 100            \* fixed-point resolution: the integer that stands for 1.0

\* ------------------------------------------------------ program constants
COOLDOWN == 60         \* seconds, visit.py line 37
EMB_DIM == 512         \* embedding.py line 36, api.py line 180, store_embedding.py line 46
BASE == 68             \* api.py line 258: 0.68, in hundredths
SLOPE == 7             \* api.py line 258: 0.7, in tenths
FLOOR == 45            \* api.py line 258: 0.45, in hundredths

CooldownTicks == COOLDOWN * TicksPerSec

Workers == {"w1", "w2"}            \* concurrent request handlers
Lounges == {"L1"}
NoLounge == ""                     \* lounge_id None / empty
Users == {"u1", "u2"}
NULL == 0 - 1                      \* SQL NULL of a timestamp column / no row id

\* user_email as verify_face passes it when the auth.users lookup succeeds
EmailOf(u) == IF u = "u1" THEN "u1@x" ELSE "u2@x"

\* the clock advances by half a second, or by just under the cooldown
TickSteps == {1, CooldownTicks - 1}

VARIABLES
    now,       \* the database clock, in ticks
    visits,    \* table lounge_visits: committed rows, id = position
    pc,        \* per worker: position in the handler or in record_lounge_visit
    args,      \* per worker: (lounge_id, user_id, user_email) of its call
    snap,      \* per worker: visit_id read by the SELECT and the NOW() of its transaction
    ret,       \* per worker: what its last call returned
    conns,     \* per worker: connections opened and not yet closed
    calls,     \* calls started so far
    ticks,     \* clock advances so far
    base,      \* history: lounge_visits when the current group of overlapping calls began
    started,   \* history: per worker, calls started since base was taken
    face_embeddings,   \* table face_embeddings: committed rows
    loc,       \* per worker: the request it handles and the handler's locals
    resp,      \* per worker: the HTTP response of its last request
    reqs       \* API requests started so far

visitVars == <<now, visits, pc, args, snap, ret, conns, calls, ticks, base, started>>
apiVars == <<face_embeddings, loc, resp, reqs>>
vars == <<now, visits, pc, args, snap, ret, conns, calls, ticks, base, started,
          face_embeddings, loc, resp, reqs>>

\* ------------------------------------------------------------ return values
NoRet == [msg |-> "none", remaining |-> NULL, raised |-> FALSE]
Returned(m) == [msg |-> m, remaining |-> NULL, raised |-> FALSE]
Recently(n) == [msg |-> "Checked in recently", remaining |-> n, raised |-> FALSE]
\* the call did not return: an exception left record_lounge_visit
Raised(m) == [msg |-> m, remaining |-> NULL, raised |-> TRUE]

\* the locals of a call: the row id fetched (0: no row), the transaction's
\* NOW(), and the branch taken on the fetched row
NoSnap == [id |-> 0, tx |-> NULL, branch |-> "none"]

\* ------------------------------------------------------------ lounge_visits
NewRow(l, u, e, t) ==
    [lounge |-> l, user |-> u, email |-> e, in_time |-> t, out_time |-> NULL]

PairIds(rows, l, u) ==
    {i \in DOMAIN rows : rows[i].lounge = l /\ rows[i].user = u}

OpenIds(rows, l, u) ==
    {i \in PairIds(rows, l, u) : rows[i].out_time = NULL}

\* ORDER BY in_time DESC LIMIT 1: the rows the SELECT may return.  Rows that
\* tie on in_time come back in an order SQL leaves open.
LatestIds(rows, l, u) ==
    {i \in PairIds(rows, l, u) :
        \A j \in PairIds(rows, l, u) : rows[j].in_time <= rows[i].in_time}

\* EXTRACT(EPOCH FROM (NOW() - in_time)), in ticks
SecondsSinceIn(row, t) == t - row.in_time

\* int(60 - seconds_since_in): Python's int() truncates, and the operand is
\* positive on this path
RemainingSecs(elapsed) == (CooldownTicks - elapsed) \div TicksPerSec

\* mutant: the cooldown test is left out, an open row is always closed
DecideNoCooldown(rows, id, t) ==
    IF id = 0 THEN "insert"
    ELSE IF rows[id].out_time # NULL THEN "insert"
    ELSE "update"

\* mutant: the cooldown test is <= 60 instead of < 60
DecideInclusive(rows, id, t) ==
    IF id = 0 THEN "insert"
    ELSE IF rows[id].out_time # NULL THEN "insert"
    ELSE IF SecondsSinceIn(rows[id], t) <= CooldownTicks THEN "recent"
    ELSE "update"

\* the branch record_lounge_visit takes on the row it fetched (0: no row)
Decide(rows, id, t) ==
    IF id = 0 THEN "insert"
    ELSE IF rows[id].out_time # NULL THEN "insert"
    ELSE IF SecondsSinceIn(rows[id], t) < CooldownTicks THEN "recent"
    ELSE "update"

\* UPDATE lounge_visits SET out_time = NOW() WHERE id = visit_id
CloseRow(rows, id, t) == [rows EXCEPT ![id].out_time = t]

\* mutant: the INSERT also fills out_time
InsertRowClosed(rows, l, u, e, t) ==
    Append(rows, [NewRow(l, u, e, t) EXCEPT !.out_time = t])

\* INSERT INTO lounge_visits (lounge_id, user_id, user_email): in_time DEFAULT NOW()
InsertRow(rows, l, u, e, t) == Append(rows, NewRow(l, u, e, t))

\* ------------------------------------------------------- fixed-point vectors
\* A float is the integer nearest to Unit times its value.  An embedding is
\* [shape, v]: a numpy array of `shape` floats whose first two coordinates
\* are v and whose other coordinates are 0.
Scale == Unit * Unit                 \* a product of two floats carries Unit^2

\* x / d rounded to the nearest integer (d > 0)
RoundDiv(x, d) == (2 * x + d) \div (2 * d)

RECURSIVE SqrtBetween(_, _, _)
SqrtBetween(n, lo, hi) ==
    IF lo >= hi THEN lo
    ELSE LET mid == (lo + hi + 1) \div 2
         IN IF mid * mid <= n THEN SqrtBetween(n, mid, hi)
            ELSE SqrtBetween(n, lo, mid - 1)

\* floor of the square root
ISqrt(n) == SqrtBetween(n, 0, IF n < 46340 THEN n ELSE 46340)

\* np.dot on the coordinate lists
Dot(a, b) == a[1] * b[1] + a[2] * b[2]

\* np.linalg.norm, in units of 1 / Unit of the vector's own unit
Norm(v) == ISqrt(Dot(v, v) * Scale)

\* v / norm when norm > 0, else v unchanged.  The quotient is in fixed point
\* whatever unit v is in (a raw DeepFace output is in its own unit).
Normalize(v) ==
    IF Dot(v, v) > 0
    THEN [i \in 1..2 |-> RoundDiv(v[i] * Scale, Norm(v))]
    ELSE v

\* ------------------------------------------------------------ face/embedding.py
\* "embedding is None"
None == [shape |-> 0 - 1, v |-> <<0, 0>>]

\* What DeepFace makes of an image: the payload does not decode, or no
\* result comes back (or represent() raises), or a raw embedding of some
\* shape comes back.
Undecodable == [kind |-> "undecodable", shape |-> 0, raw |-> <<0, 0>>]
NoFace == [kind |-> "noface", shape |-> 0, raw |-> <<0, 0>>]
Face(shape, raw) == [kind |-> "face", shape |-> shape, raw |-> raw]
NoImage == [kind |-> "absent", shape |-> 0, raw |-> <<0, 0>>]     \* field not sent

Images ==
    {Undecodable, NoFace, Face(128, <<1, 0>>)}
    \cup {Face(EMB_DIM, r) : r \in {<<3, 4>>, <<4, 3>>, <<1, 0>>, <<7, 24>>, <<0 - 3, 0 - 4>>, <<0, 0>>}}

\* decode_image: raises ValueError on an image that does not decode
Decodes(img) == img.kind # "undecodable"

\* generate_embedding, lines 20-50: None when DeepFace gives nothing or the
\* shape is not 512; else the embedding, divided by its norm when norm > 0
GenerateEmbedding(img) ==
    IF img.kind # "face" THEN None
    ELSE IF img.shape # EMB_DIM THEN None
    ELSE [shape |-> img.shape, v |-> Normalize(img.raw)]

\* the embeddings of the images that gave one, in order (lines 64-69)
RECURSIVE ValidEmbeddings(_)
ValidEmbeddings(imgs) ==
    IF imgs = <<>> THEN <<>>
    ELSE LET emb == GenerateEmbedding(Head(imgs))
         IN IF emb # None THEN <<emb>> \o ValidEmbeddings(Tail(imgs))
            ELSE ValidEmbeddings(Tail(imgs))

RECURSIVE SumOf(_, _)
SumOf(embs, i) == IF embs = <<>> THEN 0 ELSE Head(embs).v[i] + SumOf(Tail(embs), i)

\* np.mean(embeddings, axis=0)
MeanOf(embs) == [i \in 1..2 |-> RoundDiv(SumOf(embs, i), Len(embs))]

\* mutant: no check for an empty list of embeddings; the zero vector comes back
GenerateMultiEmbeddingNoCheck(imgs) ==
    LET embs == ValidEmbeddings(imgs)
    IN IF embs = <<>> THEN [shape |-> EMB_DIM, v |-> <<0, 0>>]
       ELSE [shape |-> EMB_DIM, v |-> Normalize(MeanOf(embs))]

\* generate_multi_embedding, lines 53-83
GenerateMultiEmbedding(imgs) ==
    LET embs == ValidEmbeddings(imgs)
    IN IF embs = <<>> THEN None
       ELSE [shape |-> EMB_DIM, v |-> Normalize(MeanOf(embs))]

\* ------------------------------------------------------- db/store_embedding.py
UserOrder == <<"u1", "u2">>          \* ascending user_id

RowOf(table, u) == {i \in DOMAIN table : table[i].user_id = u}

\* mutant: a plain INSERT, no ON CONFLICT clause and no unique user_id
UpsertAppend(table, u, emb) == Append(table, [user_id |-> u, embedding |-> emb])

\* INSERT ... ON CONFLICT (user_id) DO UPDATE SET embedding = EXCLUDED.embedding
Upsert(table, u, emb) ==
    IF RowOf(table, u) = {}
    THEN Append(table, [user_id |-> u, embedding |-> emb])
    ELSE [i \in DOMAIN table |->
            IF table[i].user_id = u THEN [table[i] EXCEPT !.embedding = emb] ELSE table[i]]

\* the rows of user u, in table order
RowsOfUser(table, u) == SelectSeq(table, LAMBDA r : r.user_id = u)

RECURSIVE OrderedBy(_, _)
OrderedBy(table, order) ==
    IF order = <<>> THEN <<>>
    ELSE RowsOfUser(table, Head(order)) \o OrderedBy(table, Tail(order))

\* mutant: the SELECT has no ORDER BY; the rows come back in table order
SelectEmbeddingsUnordered(table) == table

\* SELECT user_id, embedding FROM face_embeddings ORDER BY user_id
SelectEmbeddings(table) == OrderedBy(table, UserOrder)

\* fetch_all_embeddings, lines 106-125: the dict users, in insertion order;
\* a row whose vector is not 512 long is skipped
LoadUsers(rows) == SelectSeq(rows, LAMBDA r : r.embedding.shape = EMB_DIM)

\* fetch_all_embeddings, lines 88-134: {} when the connection or the query fails
FetchAllEmbeddings(table, db_ok) ==
    IF db_ok THEN LoadUsers(SelectEmbeddings(table)) ELSE <<>>

\* store_embedding, lines 35-85: False, and nothing stored, on a bad
\* embedding, a failed connection or a database error
StoreEmbedding(table, u, emb, db_ok) ==
    IF emb = None \/ emb.shape # EMB_DIM THEN [success |-> FALSE, table |-> table]
    ELSE IF ~db_ok THEN [success |-> FALSE, table |-> table]
    ELSE [success |-> TRUE, table |-> Upsert(table, u, emb)]

\* --------------------------------------------------------- api.py verify_face
\* lines 226-234: (uid, score) for every user of the gallery, in its order
RECURSIVE ScoreAll(_, _)
ScoreAll(probe, users) ==
    IF users = <<>> THEN <<>>
    ELSE <<[uid |-> Head(users).user_id,
            score |-> Dot(probe.v, Normalize(Head(users).embedding.v))]>>
         \o ScoreAll(probe, Tail(users))

\* mutant: an unstable descending sort, later ties first
RECURSIVE InsertDescUnstable(_, _)
InsertDescUnstable(sorted, m) ==
    IF sorted = <<>> THEN <<m>>
    ELSE IF Head(sorted).score > m.score
         THEN <<Head(sorted)>> \o InsertDescUnstable(Tail(sorted), m)
         ELSE <<m>> \o sorted

\* one element put into a list sorted by score, descending, behind its equals
RECURSIVE InsertDesc(_, _)
InsertDesc(sorted, m) ==
    IF sorted = <<>> THEN <<m>>
    ELSE IF Head(sorted).score >= m.score
         THEN <<Head(sorted)>> \o InsertDesc(Tail(sorted), m)
         ELSE <<m>> \o sorted

RECURSIVE SortFrom(_, _)
SortFrom(sorted, rest) ==
    IF rest = <<>> THEN sorted
    ELSE SortFrom(InsertDesc(sorted, Head(rest)), Tail(rest))

\* matches.sort(key=lambda x: x[1], reverse=True): Python's sort is stable,
\* also with reverse=True
SortDesc(matches) == SortFrom(<<>>, matches)

Max(a, b) == IF a >= b THEN a ELSE b

\* mutant: the threshold without its floor
DynamicThresholdNoFloor(margin) == BASE * Scale - 10 * SLOPE * margin

\* max(0.45, 0.68 - (margin * 0.7)), in units of 1 / (100 * Scale); margin is
\* in units of 1 / Scale
DynamicThreshold(margin) == Max(FLOOR * Scale, BASE * Scale - 10 * SLOPE * margin)

\* round(best_score, 4), in units of 1 / 10000
Confidence(score) == RoundDiv(score * 10000, Scale)

\* mutant: the threshold test is left out, the best user is always accepted
DecisionAcceptAll(probe, users) ==
    LET matches == SortDesc(ScoreAll(probe, users))
        best_user == matches[1].uid
        best_score == matches[1].score
        second_best_score == IF Len(matches) > 1 THEN matches[2].score ELSE 0
        margin == best_score - second_best_score
        dynamic_threshold == DynamicThreshold(margin)
    IN [matches |-> matches, best_user |-> best_user, best_score |-> best_score,
        second |-> second_best_score, margin |-> margin,
        threshold |-> dynamic_threshold,
        accept |-> TRUE]

\* lines 236-263 on a non-empty list of matches
Decision(probe, users) ==
    LET matches == SortDesc(ScoreAll(probe, users))
        best_user == matches[1].uid
        best_score == matches[1].score
        second_best_score == IF Len(matches) > 1 THEN matches[2].score ELSE 0
        margin == best_score - second_best_score
        dynamic_threshold == DynamicThreshold(margin)
    IN [matches |-> matches, best_user |-> best_user, best_score |-> best_score,
        second |-> second_best_score, margin |-> margin,
        threshold |-> dynamic_threshold,
        accept |-> 100 * best_score >= dynamic_threshold /\ best_user # ""]

NoDecision ==
    [matches |-> <<>>, best_user |-> "", best_score |-> 0, second |-> 0,
     margin |-> 0, threshold |-> 0, accept |-> FALSE]

\* mutant: the gallery is never found empty
NotUsersNever(users) == FALSE

\* "not users", line 220: the loaded gallery is empty
NotUsers(users) == users = <<>>

\* the handler's locals and the request they belong to; opened counts the
\* calls of get_connection() the request has made so far
NoLoc ==
    [kind |-> "none", lounge |-> NoLounge, user |-> "", image |-> NoImage,
     images |-> <<>>, embedding |-> None, users |-> <<>>, dec |-> NoDecision,
     email |-> "", shots_used |-> 0, shots_sent |-> 0, opened |-> 0]

\* once the response is out, only the kind of the request and the number of
\* images its list carried are remembered (read by the properties alone)
Served(l) == [NoLoc EXCEPT !.kind = l.kind, !.shots_sent = l.shots_sent]

\* HTTP responses: VerifyResponse / RegisterResponse (ok is matched / success),
\* or an HTTPException with its status and detail
NoResp ==
    [status |-> 0, ok |-> FALSE, user_id |-> "", user_email |-> "",
     confidence |-> 0, message |-> "none", visit |-> "", shots_used |-> 0]

HttpError(status, detail) == [NoResp EXCEPT !.status = status, !.message = detail]

NoMatch(message, confidence) ==
    [NoResp EXCEPT !.status = 200, !.message = message, !.confidence = confidence]

\* ------------------------------------------------------ api.py register_face
\* the images a multi-shot request is built from: one that does not decode,
\* one without a face, a face and its opposite
BatchImages ==
    {Undecodable, NoFace, Face(EMB_DIM, <<3, 4>>), Face(EMB_DIM, <<0 - 3, 0 - 4>>)}

\* the images_base64 lists a request may carry
Batches == UNION {[1..n -> BatchImages] : n \in 1..MaxShots}

\* the (image_base64, images_base64) a /register request may carry: neither,
\* one image, or a list (an absent or empty list is <<>>)
RegisterInputs ==
    {[single |-> s, batch |-> <<>>] : s \in Images \cup {NoImage}}
    \cup {[single |-> NoImage, batch |-> b] : b \in Batches}

\* lines 155-181: what the handler has before it stores: an HTTP error
\* status, or 200 with the embedding and shots_used
RegisterEmbedding(single, batch) ==
    LET bad(status, detail) ==
            [status |-> status, detail |-> detail, embedding |-> None, shots_used |-> 1]
    IN IF single = NoImage /\ batch = <<>>
       THEN bad(400, "Must provide image_base64 or images_base64")
       ELSE IF batch # <<>> /\ \E i \in DOMAIN batch : ~Decodes(batch[i])
       THEN bad(400, "Image processing error")
       ELSE IF batch = <<>> /\ ~Decodes(single)
       THEN bad(400, "Image processing error")
       ELSE LET embedding == IF batch # <<>> THEN GenerateMultiEmbedding(batch)
                             ELSE GenerateEmbedding(single)
                shots_used == IF batch # <<>> THEN Len(batch) ELSE 1
            IN IF embedding = None
               THEN [bad(422, "Could not extract facial features") EXCEPT
                        !.shots_used = shots_used]
               ELSE IF embedding.shape # EMB_DIM
               THEN [bad(500, "Unexpected embedding size") EXCEPT
                        !.shots_used = shots_used]
               ELSE [status |-> 200, detail |-> "", embedding |-> embedding,
                     shots_used |-> shots_used]

\* --------------------------------------------------------------- the clock
Tick ==
    /\ ticks < MaxTicks
    /\ \E d \in TickSteps : now' = now + d
    /\ ticks' = ticks + 1
    /\ UNCHANGED <<visits, pc, args, snap, ret, conns, calls, base, started>>
    /\ UNCHANGED apiVars

\* ------------------------------------------------------ record_lounge_visit
AllIdle == \A q \in Workers : pc[q] = "idle"

\* history only: remember the table at the start of a group of overlapping calls
NoteStart(p) ==
    IF AllIdle
    THEN /\ base' = visits
         /\ started' = [q \in Workers |-> IF q = p THEN 1 ELSE 0]
    ELSE /\ base' = base
         /\ started' = [started EXCEPT ![p] = @ + 1]

\* where control goes when record_lounge_visit ends: back into verify_face,
\* or to the caller outside the model
After(p) == IF loc[p].kind = "verify" THEN "v_visited" ELSE "idle"

\* lines 11-16: the lounge_id check and get_connection()
VisitEnter(p, l, u, e) ==
    /\ args' = [args EXCEPT ![p] = [lounge |-> l, user |-> u, email |-> e]]
    /\ snap' = [snap EXCEPT ![p] = NoSnap]
    /\ IF l = NoLounge
       THEN /\ ret' = [ret EXCEPT ![p] = Returned("No lounge ID provided")]
            /\ pc' = [pc EXCEPT ![p] = After(p)]
            /\ UNCHANGED conns
       ELSE \E connected \in BOOLEAN :
            IF connected
            THEN /\ pc' = [pc EXCEPT ![p] = "connected"]
                 /\ conns' = [conns EXCEPT ![p] = @ + 1]
                 /\ ret' = [ret EXCEPT ![p] = NoRet]
            ELSE /\ ret' = [ret EXCEPT ![p] = Returned("")]
                 /\ pc' = [pc EXCEPT ![p] = After(p)]
                 /\ UNCHANGED conns

\* a caller invokes record_lounge_visit(lounge_id, user_id, user_email)
VisitCall(p) ==
    /\ pc[p] = "idle"
    /\ calls < MaxCalls
    /\ calls' = calls + 1
    /\ NoteStart(p)
    /\ \E l \in Lounges \cup {NoLounge}, u \in Users : VisitEnter(p, l, u, EmailOf(u))
    /\ UNCHANGED <<now, visits, ticks>>
    /\ UNCHANGED apiVars

\* lines 18-38: conn.cursor(), the SELECT of the most recent visit, and the
\* branch on it.  A psycopg2.Error from conn.cursor() is caught (rollback,
\* return ""), but the finally clause then reads the unassigned local cur:
\* UnboundLocalError leaves the function before conn.close().
VisitSelect(p) ==
    /\ pc[p] = "connected"
    /\ \E outcome \in {"cursor_error", "select_error", "ok"} :
        CASE outcome = "cursor_error" ->
                /\ ret' = [ret EXCEPT ![p] = Raised("UnboundLocalError")]
                /\ pc' = [pc EXCEPT ![p] = After(p)]
                /\ UNCHANGED <<snap, conns>>
          [] outcome = "select_error" ->
                /\ ret' = [ret EXCEPT ![p] = Returned("")]
                /\ pc' = [pc EXCEPT ![p] = After(p)]
                /\ conns' = [conns EXCEPT ![p] = @ - 1]
                /\ UNCHANGED snap
          [] outcome = "ok" ->
                LET l == args[p].lounge
                    u == args[p].user
                    found == LatestIds(visits, l, u)
                IN \E id \in (IF found = {} THEN {0} ELSE found) :
                    /\ snap' = [snap EXCEPT ![p] =
                            [id |-> id, tx |-> now, branch |-> Decide(visits, id, now)]]
                    /\ IF Decide(visits, id, now) = "recent"
                       THEN /\ ret' = [ret EXCEPT ![p] =
                                   Recently(RemainingSecs(SecondsSinceIn(visits[id], now)))]
                            /\ pc' = [pc EXCEPT ![p] = After(p)]
                            /\ conns' = [conns EXCEPT ![p] = @ - 1]
                       ELSE /\ pc' = [pc EXCEPT ![p] = "selected"]
                            /\ UNCHANGED <<ret, conns>>
    /\ UNCHANGED <<now, visits, args, calls, ticks, base, started>>
    /\ UNCHANGED apiVars

\* lines 39-63: the UPDATE or the INSERT, commit, and the finally clause.
\* A psycopg2.Error on the write or the commit rolls back and returns "".
VisitWrite(p) ==
    /\ pc[p] = "selected"
    /\ \E committed \in BOOLEAN :
        IF committed
        THEN IF snap[p].branch = "update"
             THEN /\ visits' = CloseRow(visits, snap[p].id, snap[p].tx)
                  /\ ret' = [ret EXCEPT ![p] = Returned("Checked out")]
             ELSE /\ visits' = InsertRow(visits, args[p].lounge, args[p].user,
                                         args[p].email, snap[p].tx)
                  /\ ret' = [ret EXCEPT ![p] = Returned("Checked in")]
        ELSE /\ ret' = [ret EXCEPT ![p] = Returned("")]
             /\ UNCHANGED visits
    /\ pc' = [pc EXCEPT ![p] = After(p)]
    /\ conns' = [conns EXCEPT ![p] = @ - 1]
    /\ UNCHANGED <<now, args, snap, calls, ticks, base, started>>
    /\ UNCHANGED apiVars

\* ------------------------------------------------------------- api.py handlers
\* the two embedding computations, tabulated over the inputs of the model
ProbeOf == [img \in Images |-> IF Decodes(img) THEN GenerateEmbedding(img) ELSE None]
RegisterOutcome == [in \in RegisterInputs |-> RegisterEmbedding(in.single, in.batch)]

\* the handler returns (or raises): the response goes out, the locals are gone
Respond(p, r) ==
    /\ resp' = [resp EXCEPT ![p] = r]
    /\ pc' = [pc EXCEPT ![p] = "idle"]
    /\ loc' = [loc EXCEPT ![p] = Served(loc[p])]

\* mutant: the handler opens its connection on entry, before the Embedder
VerifyRequestConnected(p) ==
    /\ pc[p] = "idle"
    /\ reqs < MaxReqs
    /\ reqs' = reqs + 1
    /\ \E img \in Images, lounge \in Lounges \cup {NoLounge} :
        loc' = [loc EXCEPT ![p] =
                   [NoLoc EXCEPT !.kind = "verify", !.lounge = lounge, !.image = img,
                                 !.opened = 1]]
    /\ pc' = [pc EXCEPT ![p] = "v_received"]
    /\ resp' = [resp EXCEPT ![p] = NoResp]
    /\ UNCHANGED <<now, visits, args, snap, ret, conns, calls, ticks, base, started,
                   face_embeddings>>

\* POST /verify, lines 197-198: a request reaches the handler
VerifyRequest(p) ==
    /\ pc[p] = "idle"
    /\ reqs < MaxReqs
    /\ reqs' = reqs + 1
    /\ \E img \in Images, lounge \in Lounges \cup {NoLounge} :
        loc' = [loc EXCEPT ![p] =
                   [NoLoc EXCEPT !.kind = "verify", !.lounge = lounge, !.image = img]]
    /\ pc' = [pc EXCEPT ![p] = "v_received"]
    /\ resp' = [resp EXCEPT ![p] = NoResp]
    /\ UNCHANGED <<now, visits, args, snap, ret, conns, calls, ticks, base, started,
                   face_embeddings>>

\* lines 203-216: decode, preprocess, embed the probe
VerifyEmbed(p) ==
    /\ pc[p] = "v_received"
    /\ LET live_embedding == ProbeOf[loc[p].image]
       IN IF ~Decodes(loc[p].image)
          THEN Respond(p, HttpError(400, "Invalid image"))
          ELSE IF live_embedding = None
          THEN Respond(p, NoMatch("No face detected in image", 0))
          ELSE /\ pc' = [pc EXCEPT ![p] = "v_embedded"]
               /\ loc' = [loc EXCEPT ![p].embedding = live_embedding]
               /\ UNCHANGED resp
    /\ UNCHANGED <<now, visits, args, snap, ret, conns, calls, ticks, base, started,
                   face_embeddings, reqs>>

\* lines 218-221: load the gallery; an empty one ends the request.  The
\* connection of fetch_all_embeddings is opened and closed inside this step.
VerifyFetch(p) ==
    /\ pc[p] = "v_embedded"
    /\ \E db_ok \in BOOLEAN :
        LET users == FetchAllEmbeddings(face_embeddings, db_ok)
        IN IF NotUsers(users)
           THEN Respond(p, NoMatch("No registered users in database", 0))
           ELSE /\ pc' = [pc EXCEPT ![p] = "v_fetched"]
                /\ loc' = [loc EXCEPT ![p].users = users, ![p].opened = @ + 1]
                /\ UNCHANGED resp
    /\ UNCHANGED <<now, visits, args, snap, ret, conns, calls, ticks, base, started,
                   face_embeddings, reqs>>

\* lines 224-263 and 293-297: score the gallery, decide (matches[0] of an
\* empty list raises IndexError)
VerifyMatch(p) ==
    /\ pc[p] = "v_fetched"
    /\ IF loc[p].users = <<>>
       THEN Respond(p, HttpError(500, "IndexError"))
       ELSE LET dec == Decision(loc[p].embedding, loc[p].users)
            IN IF dec.accept
               THEN /\ pc' = [pc EXCEPT ![p] = "v_accepted"]
                    /\ loc' = [loc EXCEPT ![p].dec = dec]
                    /\ UNCHANGED resp
               ELSE Respond(p, NoMatch("No match", Confidence(dec.best_score)))
    /\ UNCHANGED <<now, visits, args, snap, ret, conns, calls, ticks, base, started,
                   face_embeddings, reqs>>

\* lines 264-282: look the email up, then call record_lounge_visit when the
\* request names a lounge.  A psycopg2 error from conn.cursor() is caught, but
\* the finally clause reads the unassigned cur: UnboundLocalError leaves the
\* handler (HTTP 500) with the connection open.
VerifyVisit(p) ==
    /\ pc[p] = "v_accepted"
    /\ \E lookup \in {"found", "unknown", "cursor_error"} :
        LET user_email == IF lookup = "found" THEN EmailOf(loc[p].dec.best_user)
                          ELSE "Unknown"
        IN IF lookup = "cursor_error"
           THEN /\ Respond(p, HttpError(500, "UnboundLocalError"))
                /\ conns' = [conns EXCEPT ![p] = @ + 1]
                /\ UNCHANGED <<args, snap, ret>>
           ELSE /\ loc' = [loc EXCEPT ![p].email = user_email,
                                      ![p].opened = @ + (IF loc[p].lounge # NoLounge
                                                         THEN 2 ELSE 1)]
                /\ UNCHANGED resp
                /\ IF loc[p].lounge # NoLounge
                   THEN VisitEnter(p, loc[p].lounge, loc[p].dec.best_user, user_email)
                   ELSE /\ pc' = [pc EXCEPT ![p] = "v_visited"]
                        /\ ret' = [ret EXCEPT ![p] = NoRet]
                        /\ UNCHANGED <<args, snap, conns>>
    /\ UNCHANGED <<now, visits, calls, ticks, base, started, face_embeddings, reqs>>

\* lines 283-291: the response of an accepted verification
VerifyRespond(p) ==
    /\ pc[p] = "v_visited"
    /\ IF ret[p].raised
       THEN Respond(p, HttpError(500, ret[p].msg))
       ELSE Respond(p, [NoResp EXCEPT
                !.status = 200, !.ok = TRUE,
                !.user_id = loc[p].dec.best_user,
                !.user_email = loc[p].email,
                !.confidence = Confidence(loc[p].dec.best_score),
                !.message = "Match found",
                !.visit = IF ret[p].msg = "none" THEN "" ELSE ret[p].msg])
    /\ UNCHANGED <<now, visits, args, snap, ret, conns, calls, ticks, base, started,
                   face_embeddings, reqs>>

\* POST /register, lines 149-150: a request reaches the handler
RegisterRequest(p) ==
    /\ pc[p] = "idle"
    /\ reqs < MaxReqs
    /\ reqs' = reqs + 1
    /\ \E u \in Users, in \in RegisterInputs :
        loc' = [loc EXCEPT ![p] =
                   [NoLoc EXCEPT !.kind = "register", !.user = u, !.image = in.single,
                                 !.images = in.batch, !.shots_sent = Len(in.batch)]]
    /\ pc' = [pc EXCEPT ![p] = "r_received"]
    /\ resp' = [resp EXCEPT ![p] = NoResp]
    /\ UNCHANGED <<now, visits, args, snap, ret, conns, calls, ticks, base, started,
                   face_embeddings>>

\* lines 155-181: validate, decode, embed
RegisterEmbed(p) ==
    /\ pc[p] = "r_received"
    /\ LET r == RegisterOutcome[[single |-> loc[p].image, batch |-> loc[p].images]]
       IN IF r.status # 200
          THEN Respond(p, HttpError(r.status, r.detail))
          ELSE /\ pc' = [pc EXCEPT ![p] = "r_embedded"]
               /\ loc' = [loc EXCEPT ![p].embedding = r.embedding,
                                     ![p].shots_used = r.shots_used]
               /\ UNCHANGED resp
    /\ UNCHANGED <<now, visits, args, snap, ret, conns, calls, ticks, base, started,
                   face_embeddings, reqs>>

\* lines 183-194: store the template and answer.  The connection of
\* store_embedding is opened and closed inside this step.
RegisterStore(p) ==
    /\ pc[p] = "r_embedded"
    /\ \E db_ok \in BOOLEAN :
        LET r == StoreEmbedding(face_embeddings, loc[p].user, loc[p].embedding, db_ok)
        IN /\ face_embeddings' = r.table
           /\ IF r.success
              THEN Respond(p, [NoResp EXCEPT
                        !.status = 200, !.ok = TRUE, !.user_id = loc[p].user,
                        !.message = "Face registered successfully",
                        !.shots_used = loc[p].shots_used])
              ELSE Respond(p, HttpError(500, "Failed to store embedding in database"))
    /\ UNCHANGED <<now, visits, args, snap, ret, conns, calls, ticks, base, started,
                   reqs>>

Init ==
    /\ now = 0
    /\ visits = <<>>
    /\ pc = [p \in Workers |-> "idle"]
    /\ args = [p \in Workers |-> [lounge |-> NoLounge, user |-> "u1", email |-> EmailOf("u1")]]
    /\ snap = [p \in Workers |-> NoSnap]
    /\ ret = [p \in Workers |-> NoRet]
    /\ conns = [p \in Workers |-> 0]
    /\ calls = 0
    /\ ticks = 0
    /\ base = <<>>
    /\ started = [p \in Workers |-> 0]
    /\ face_embeddings = <<>>
    /\ loc = [p \in Workers |-> NoLoc]
    /\ resp = [p \in Workers |-> NoResp]
    /\ reqs = 0

Next ==
    \/ Tick
    \/ \E p \in Workers : VisitCall(p)
    \/ \E p \in Workers : VisitSelect(p)
    \/ \E p \in Workers : VisitWrite(p)

Spec == Init /\ [][Next]_vars

\* the service a cooldown after its first check-in: one open row, written
\* at time 0 for (L1, u1), the clock at 60 seconds, nobody in a call
InitAged ==
    /\ now = CooldownTicks
    /\ visits = <<NewRow("L1", "u1", EmailOf("u1"), 0)>>
    /\ pc = [p \in Workers |-> "idle"]
    /\ args = [p \in Workers |-> [lounge |-> NoLounge, user |-> "u1", email |-> EmailOf("u1")]]
    /\ snap = [p \in Workers |-> NoSnap]
    /\ ret = [p \in Workers |-> NoRet]
    /\ conns = [p \in Workers |-> 0]
    /\ calls = 0
    /\ ticks = 0
    /\ base = visits
    /\ started = [p \in Workers |-> 0]
    /\ face_embeddings = <<>>
    /\ loc = [p \in Workers |-> NoLoc]
    /\ resp = [p \in Workers |-> NoResp]
    /\ reqs = 0

SpecAged == InitAged /\ [][Next]_vars

\* the HTTP service: /register and /verify requests, handled one at a time,
\* the visit recorded from inside /verify.  The clock stands still here: what
\* the visit state machine does with time is the subject of Spec.
ApiWorkers == {"w1"}

ApiNext ==
    \/ \E p \in ApiWorkers : RegisterRequest(p)
    \/ \E p \in ApiWorkers : RegisterEmbed(p)
    \/ \E p \in ApiWorkers : RegisterStore(p)
    \/ \E p \in ApiWorkers : VerifyRequest(p)
    \/ \E p \in ApiWorkers : VerifyEmbed(p)
    \/ \E p \in ApiWorkers : VerifyFetch(p)
    \/ \E p \in ApiWorkers : VerifyMatch(p)
    \/ \E p \in ApiWorkers : VerifyVisit(p)
    \/ \E p \in ApiWorkers : VerifyRespond(p)
    \/ \E p \in ApiWorkers : VisitSelect(p)
    \/ \E p \in ApiWorkers : VisitWrite(p)

SpecApi == Init /\ [][ApiNext]_vars

\* store_embedding called as a function, as face/register_face.py and
\* register_face do, with whatever a caller may pass: None, a vector of
\* another length, or a 512-vector
StoreInputs ==
    {None, [shape |-> 128, v |-> <<Unit, 0>>]}
    \cup {ProbeOf[img] : img \in {i \in Images : i.kind = "face" /\ i.shape = EMB_DIM}}

\* one call of store_embedding(user_id, embedding); the connection is opened
\* and closed inside the call
StoreCall(p) ==
    /\ pc[p] = "idle"
    /\ reqs < MaxReqs
    /\ reqs' = reqs + 1
    /\ \E u \in Users, emb \in StoreInputs, db_ok \in BOOLEAN :
        LET r == StoreEmbedding(face_embeddings, u, emb, db_ok)
        IN /\ face_embeddings' = r.table
           /\ loc' = [loc EXCEPT ![p] =
                        [NoLoc EXCEPT !.kind = "store", !.user = u, !.embedding = emb]]
           /\ ret' = [ret EXCEPT ![p] = Returned(IF r.success THEN "True" ELSE "False")]
    /\ UNCHANGED <<now, visits, pc, args, snap, conns, calls, ticks, base, started, resp>>

StoreNext == \E p \in ApiWorkers : StoreCall(p)

SpecStore == Init /\ [][StoreNext]_vars

\* ------------------------------------------------- outcomes of whole calls
\* record_lounge_visit run without interruption at transaction time t on the
\* table rows: the results it can produce (one per row the SELECT may return)
VisitOutcome(rows, a, t, id) ==
    CASE Decide(rows, id, t) = "insert" ->
            [rows |-> InsertRow(rows, a.lounge, a.user, a.email, t),
             ret |-> Returned("Checked in")]
      [] Decide(rows, id, t) = "recent" ->
            [rows |-> rows,
             ret |-> Recently(RemainingSecs(SecondsSinceIn(rows[id], t)))]
      [] Decide(rows, id, t) = "update" ->
            [rows |-> CloseRow(rows, id, t), ret |-> Returned("Checked out")]

AtomicVisit(rows, a, t) ==
    LET found == LatestIds(rows, a.lounge, a.user)
    IN {VisitOutcome(rows, a, t, id) : id \in (IF found = {} THEN {0} ELSE found)}

\* --------------------------------------------------------------- vocabulary
Transitions == {"Checked in", "Checked out", "Checked in recently"}

\* worker p's last call ran to the end of the state machine (no storage failure)
Completed(p) == pc[p] = "idle" /\ ret[p].msg \in Transitions /\ ~ret[p].raised

\* worker p's last call overlapped no other call
RanAlone(p) ==
    /\ AllIdle
    /\ started[p] = 1
    /\ \A q \in Workers \ {p} : started[q] = 0

\* both workers made one call each, overlapping, for the same pair
RacedPair(p, q) ==
    /\ p # q
    /\ AllIdle
    /\ started[p] = 1 /\ started[q] = 1
    /\ Completed(p) /\ Completed(q)
    /\ args[p].lounge = args[q].lounge /\ args[p].user = args[q].user

\* ------------------------------------------------------------------ claims

\* C1: for every (lounge_id, user_id) pair, in every reachable state of
\* concurrent record_lounge_visit calls, at most one lounge_visits row of the
\* pair has out_time = NULL.
C1_AtMostOneOpen ==
    \A l \in Lounges, u \in Users : Cardinality(OpenIds(visits, l, u)) <= 1

\* C2: two overlapping calls for the same pair serialize: their returned
\* statuses and the final table are those of running the two calls one after
\* the other, in one of the two orders (so never two "Checked in" from ABSENT,
\* never two "Checked out" of one open record).
C2_Serializable ==
    \A p, q \in Workers :
        RacedPair(p, q) =>
            \E first, second \in {p, q} :
                /\ first # second
                /\ \E o1 \in AtomicVisit(base, args[first], snap[first].tx) :
                   \E o2 \in AtomicVisit(o1.rows, args[second], snap[second].tx) :
                        /\ ret[first] = o1.ret
                        /\ ret[second] = o2.ret
                        /\ visits = o2.rows

\* C3: a call that runs alone for a pair with no record, or whose most recent
\* record is closed, appends exactly one open row (in_time = the call's NOW())
\* to the table, leaves every existing row as it was, and returns "Checked in".
C3_CheckIn ==
    \A p \in Workers :
        LET l == args[p].lounge
            u == args[p].user
        IN (/\ RanAlone(p) /\ Completed(p)
            /\ \A i \in LatestIds(base, l, u) : base[i].out_time # NULL)
           => /\ Len(visits) = Len(base) + 1
              /\ \A i \in DOMAIN base : visits[i] = base[i]
              /\ visits[Len(visits)] =
                    [lounge |-> l, user |-> u, email |-> args[p].email,
                     in_time |-> snap[p].tx, out_time |-> NULL]
              /\ snap[p].tx <= now
              /\ ret[p] = Returned("Checked in")

C3_Witness ==
    \E p \in Workers :
        /\ RanAlone(p) /\ Completed(p)
        /\ LatestIds(base, args[p].lounge, args[p].user) # {}
        /\ \A i \in LatestIds(base, args[p].lounge, args[p].user) : base[i].out_time # NULL
        /\ ret[p].msg = "Checked in"
        /\ Len(visits) = Len(base) + 1

\* C4: an accept for a pair that has an open record younger than 60 seconds
\* changes no lounge_visits row, inserts none, and returns the "Checked in
\* recently" status (checked on the step in which the call reads the table).
C4_Cooldown ==
    [][\A p \in Workers :
        (/\ pc[p] = "connected"
         /\ snap'[p].tx # NULL
         /\ \E i \in OpenIds(visits, args[p].lounge, args[p].user) :
                now - visits[i].in_time < COOLDOWN * TicksPerSec)
        => /\ visits' = visits
           /\ pc'[p] = "idle"
           /\ ret'[p].msg = "Checked in recently"
           /\ ~ret'[p].raised]_vars

C4_Witness ==
    \E p \in Workers :
        /\ Completed(p)
        /\ ret[p].msg = "Checked in recently"
        /\ ret[p].remaining = 0
        /\ snap[p].id # 0
        /\ visits[snap[p].id].out_time = NULL
        /\ snap[p].tx - visits[snap[p].id].in_time = COOLDOWN * TicksPerSec - 1

\* C5: a call that runs alone for a pair whose most recent record is its open
\* record, 60 seconds old or older (60 included), sets out_time on exactly
\* that record, inserts no row, changes no other row, returns "Checked out"
\* and leaves the pair without an open record.
C5_CheckOut ==
    \A p \in Workers :
        LET l == args[p].lounge
            u == args[p].user
        IN \A id \in DOMAIN base :
            (/\ RanAlone(p) /\ Completed(p)
             /\ OpenIds(base, l, u) = {id}
             /\ LatestIds(base, l, u) = {id}
             /\ snap[p].tx - base[id].in_time >= COOLDOWN * TicksPerSec)
            => /\ Len(visits) = Len(base)
               /\ \A i \in DOMAIN base : i # id => visits[i] = base[i]
               /\ visits[id] = [base[id] EXCEPT !.out_time = snap[p].tx]
               /\ visits[id].out_time # NULL
               /\ OpenIds(visits, l, u) = {}
               /\ ret[p] = Returned("Checked out")

\* the boundary: the open record is exactly 60 seconds old
C5_Witness ==
    \E p \in Workers : \E id \in DOMAIN base :
        /\ RanAlone(p) /\ Completed(p)
        /\ OpenIds(base, args[p].lounge, args[p].user) = {id}
        /\ snap[p].tx - base[id].in_time = COOLDOWN * TicksPerSec
        /\ ret[p].msg = "Checked out"
        /\ visits[id].out_time = snap[p].tx

\* ---------------------------------------------- vocabulary of the API claims
\* the cosine similarity of the probe and a gallery row
Similarity(probe, row) == Dot(probe.v, Normalize(row.embedding.v))

\* the largest number of a non-empty set
Highest(S) == CHOOSE b \in S : \A x \in S : x <= b

\* the image yields an embedding
Embeds(img) == Decodes(img) /\ GenerateEmbedding(img) # None

\* C6: for every non-empty loaded gallery and probe, /verify accepts iff
\* best >= 0.45 and best >= 0.68 - 0.7 * margin, where best is the highest
\* similarity, second the second highest (0 for a gallery of one subject) and
\* margin = best - second; the accepted subject has the highest similarity; a
\* request that is not accepted ends unmatched.
C6_AcceptRule ==
    [][\A p \in Workers :
        (pc[p] = "v_fetched" /\ loc[p].users # <<>> /\ pc'[p] # "v_fetched")
        => LET users == loc[p].users
               sim == [i \in DOMAIN users |-> Similarity(loc[p].embedding, users[i])]
               best == Highest({sim[i] : i \in DOMAIN users})
               top == CHOOSE i \in DOMAIN users : sim[i] = best
               second == IF Len(users) = 1 THEN 0
                         ELSE Highest({sim[i] : i \in DOMAIN users \ {top}})
               margin == best - second
               accepts == pc'[p] = "v_accepted"
           IN /\ accepts <=> (/\ 100 * best >= FLOOR * Scale
                              /\ 100 * best >= BASE * Scale - 10 * SLOPE * margin)
              /\ accepts => \E i \in DOMAIN users :
                                /\ users[i].user_id = loc'[p].dec.best_user
                                /\ sim[i] = best
              /\ ~accepts => pc'[p] = "idle" /\ ~resp'[p].ok]_vars

\* two subjects in the gallery, accepted below 0.68 with a threshold above 0.45
C6_Witness ==
    \E p \in Workers :
        /\ pc[p] = "v_accepted"
        /\ Len(loc[p].users) = 2
        /\ 100 * loc[p].dec.best_score < BASE * Scale
        /\ loc[p].dec.threshold > FLOOR * Scale

\* C7: with no template stored, /verify answers matched = false with the
\* message "No registered users in database", its confidence left at the
\* default 0 (no score was computed), and the request ends there: no decision,
\* no call of record_lounge_visit, no lounge_visits row touched.
C7_EmptyGallery ==
    [][\A p \in Workers :
        (pc[p] = "v_embedded" /\ face_embeddings = <<>> /\ pc'[p] # "v_embedded")
        => /\ pc'[p] = "idle"
           /\ resp'[p] = NoMatch("No registered users in database", 0)
           /\ ~resp'[p].ok
           /\ loc'[p].dec = NoDecision
           /\ visits' = visits
           /\ calls' = calls]_vars

C7_Witness ==
    \E p \in Workers :
        /\ pc[p] = "idle"
        /\ loc[p].kind = "verify"
        /\ face_embeddings = <<>>
        /\ resp[p].message = "No registered users in database"
        /\ calls = 0

\* C8: the outcome of the decision is a function of the probe and of the set
\* of stored (user_id, template) rows, whatever order the rows were stored
\* in: matched flag, subject, score, threshold and margin are those computed
\* from the set, and of several subjects with the highest similarity the one
\* with the smallest user_id is reported.
C8_Deterministic ==
    [][\A p \in Workers :
        (pc[p] = "v_fetched" /\ loc[p].users # <<>> /\ pc'[p] # "v_fetched")
        => LET G == {loc[p].users[i] : i \in DOMAIN loc[p].users}
               score(r) == Similarity(loc[p].embedding, r)
               best == Highest({score(r) : r \in G})
               tied == {r.user_id : r \in {x \in G : score(x) = best}}
               first == UserOrder[CHOOSE k \in DOMAIN UserOrder :
                            /\ UserOrder[k] \in tied
                            /\ \A j \in 1..(k - 1) : UserOrder[j] \notin tied]
               second == IF Cardinality(G) = 1 THEN 0
                         ELSE IF Cardinality(tied) > 1 THEN best
                         ELSE Highest({score(r) : r \in {x \in G : x.user_id \notin tied}})
               margin == best - second
               threshold == Max(FLOOR * Scale, BASE * Scale - 10 * SLOPE * margin)
           IN IF 100 * best >= threshold
              THEN /\ pc'[p] = "v_accepted"
                   /\ loc'[p].dec.best_user = first
                   /\ loc'[p].dec.best_score = best
                   /\ loc'[p].dec.threshold = threshold
                   /\ loc'[p].dec.margin = margin
              ELSE /\ pc'[p] = "idle"
                   /\ resp'[p] = NoMatch("No match", Confidence(best))]_vars

\* u2 was stored before u1, both tie for the highest similarity, u1 is reported
C8_Witness ==
    \E p \in Workers :
        /\ pc[p] = "v_accepted"
        /\ Len(face_embeddings) = 2
        /\ face_embeddings[1].user_id = "u2"
        /\ Len(loc[p].dec.matches) = 2
        /\ loc[p].dec.matches[1].score = loc[p].dec.matches[2].score
        /\ loc[p].dec.best_user = "u1"

\* C9: a multi-shot /register whose list holds at least one image that
\* yields an embedding gets past the embedding stage (the images that fail,
\* by no face or by a decode error, are dropped) and goes on to store.
C9_LocalRecovery ==
    [][\A p \in Workers :
        (/\ pc[p] = "r_received" /\ pc'[p] # "r_received"
         /\ loc[p].images # <<>>
         /\ \E i \in DOMAIN loc[p].images : Embeds(loc[p].images[i]))
        => pc'[p] = "r_embedded"]_vars

Contributing(imgs) == Len(ValidEmbeddings(imgs))

\* C11: what the multi-shot path of /register hands on (the aggregate and
\* shots_used) gives the number of images submitted as shots_used, and
\* determines the number of images that contributed: no other list of images
\* with the same result has a different contributing count.
C11_CountsExposed ==
    [][\A p \in Workers :
        (/\ pc[p] = "r_received" /\ pc'[p] = "r_embedded"
         /\ loc[p].images # <<>>)
        => /\ loc'[p].shots_used = Len(loc[p].images)
           /\ \A b \in Batches :
                (/\ RegisterOutcome[[single |-> NoImage, batch |-> b]].status = 200
                 /\ RegisterOutcome[[single |-> NoImage, batch |-> b]].embedding
                        = loc'[p].embedding
                 /\ RegisterOutcome[[single |-> NoImage, batch |-> b]].shots_used
                        = loc'[p].shots_used)
                => Contributing(b) = Contributing(loc[p].images)]_vars

\* |v|^2 = 1, within the 2 % that rounding to 1 / Unit can cost
UnitLength(v) == 50 * Dot(v, v) >= 49 * Scale /\ 50 * Dot(v, v) <= 51 * Scale

\* C12: whenever at least one image of the list gave an embedding (each of
\* them of unit length), the vector generate_multi_embedding returns has unit
\* length.
C12_UnitAggregate ==
    [][\A p \in Workers :
        (/\ pc[p] = "r_received" /\ pc'[p] = "r_embedded"
         /\ loc[p].images # <<>>
         /\ \A i \in DOMAIN ValidEmbeddings(loc[p].images) :
                UnitLength(ValidEmbeddings(loc[p].images)[i].v))
        => /\ loc'[p].embedding = GenerateMultiEmbedding(loc[p].images)
           /\ UnitLength(loc'[p].embedding.v)]_vars

\* C13: when record_lounge_visit, called by an accepted /verify with a
\* lounge, fails on the store (no connection, or an error on the read or the
\* write), the step that fails leaves lounge_visits as it was, and the
\* response that follows differs from the response of an accepted request
\* without a lounge (no visit status) and from those of a completed
\* transition.
C13_StorageError ==
    [][\A p \in Workers :
        /\ (/\ loc[p].kind = "verify" /\ loc[p].lounge # NoLounge
            /\ pc[p] \in {"v_accepted", "connected", "selected"}
            /\ pc'[p] = "v_visited"
            /\ ret'[p].msg \notin Transitions)
           => visits' = visits
        /\ (/\ loc[p].kind = "verify" /\ loc[p].lounge # NoLounge
            /\ pc[p] = "v_visited" /\ pc'[p] = "idle"
            /\ ret[p].msg \notin Transitions)
           => \/ resp'[p].status # 200
              \/ resp'[p].visit \notin ({""} \cup Transitions)]_vars

\* C14: with templates in the store, a /verify that ends at the loading of
\* the gallery (the load has failed) is answered neither with the response
\* of an empty gallery nor with that of a no-match.
C14_LoadFailureDistinct ==
    [][\A p \in Workers :
        (/\ pc[p] = "v_embedded" /\ pc'[p] = "idle"
         /\ face_embeddings # <<>>)
        => /\ resp'[p] # NoMatch("No registered users in database", 0)
           /\ resp'[p].message # "No match"]_vars

\* C15: no /verify goes past the embedding of its probe with an all-zero
\* probe vector: when the gallery is loaded, scored or decided on, the probe
\* is not the zero vector.
C15_InvalidProbe ==
    \A p \in Workers :
        (loc[p].kind = "verify" /\ pc[p] \in {"v_embedded", "v_fetched", "v_accepted"})
        => Dot(loc[p].embedding.v, loc[p].embedding.v) > 0

\* at most one template per user_id
OneTemplateEach(table) == \A u \in Users : Cardinality(RowOf(table, u)) <= 1

\* C16: the store never holds two templates of one user, and every call of
\* store_embedding either succeeds, with a 512-vector, after which the user's
\* one template is the vector passed and every other user's template is as it
\* was, or returns False and leaves the table as it was; it returns False
\* for None and for a vector whose length is not 512.
C16_Upsert ==
    /\ []OneTemplateEach(face_embeddings)
    /\ [][\A p \in Workers :
            (reqs' = reqs + 1 /\ loc'[p].kind = "store")
            => LET u == loc'[p].user
                   emb == loc'[p].embedding
               IN /\ (emb = None \/ emb.shape # EMB_DIM) => ret'[p] = Returned("False")
                  /\ IF ret'[p] = Returned("True")
                     THEN /\ emb.shape = EMB_DIM
                          /\ RowsOfUser(face_embeddings', u)
                                = <<[user_id |-> u, embedding |-> emb]>>
                          /\ \A w \in Users \ {u} :
                                RowsOfUser(face_embeddings', w) = RowsOfUser(face_embeddings, w)
                     ELSE /\ ret'[p] = Returned("False")
                          /\ face_embeddings' = face_embeddings]_vars

\* the third call passed a vector of the wrong length for the one user who
\* has a template, and was refused
C16_Witness ==
    \E p \in Workers :
        /\ loc[p].kind = "store"
        /\ loc[p].embedding.shape = 128
        /\ ret[p] = Returned("False")
        /\ reqs = 3
        /\ Len(face_embeddings) = 1
        /\ face_embeddings[1].user_id = loc[p].user

\* C17: a call that answers "Checked in recently" reports
\* N = ceil(60 - elapsed), elapsed being NOW() - in_time of the open record
\* it read, in seconds (here in ticks of 1 / TicksPerSec second).
C17_RemainingCeil ==
    \A p \in Workers :
        (Completed(p) /\ ret[p].msg = "Checked in recently")
        => LET elapsed == snap[p].tx - visits[snap[p].id].in_time
           IN /\ elapsed >= 0 /\ elapsed < COOLDOWN * TicksPerSec
              /\ ret[p].remaining
                    = (COOLDOWN * TicksPerSec - elapsed + TicksPerSec - 1) \div TicksPerSec

\* C18: while the Embedder of a /register or /verify request has not yet
\* run (the request is at the step that embeds), the request has asked for no
\* database connection; a request that has asked for one holds the embedding
\* the Embedder returned.
C18_EmbedBeforeDb ==
    \A p \in Workers :
        /\ pc[p] \in {"v_received", "r_received"} => loc[p].opened = 0
        /\ loc[p].opened > 0 => loc[p].embedding # None

\* a /verify that has embedded its probe, then loaded the gallery, looked the
\* email up and connected for the visit
C18_Witness ==
    \E p \in Workers :
        /\ pc[p] = "connected"
        /\ loc[p].kind = "verify"
        /\ loc[p].opened = 3
        /\ conns[p] = 1
        /\ loc[p].embedding # None

\* C19: when a call of record_lounge_visit has returned or raised, none of
\* the connections it opened is still open.
C19_ConnectionsReleased ==
    \A p \in Workers : pc[p] = "idle" => conns[p] = 0

\* C20: every step of the service that changes lounge_visits is the write
\* of a /verify that was accepted (best score at or above its threshold)
\* for a request with a lounge_id, and it inserts a row for, or sets out_time
\* on a row of, exactly the requested lounge and the accepted subject; so a
\* verification that is not accepted, or carries no lounge_id, changes no row.
C20_VisitOnlyOnAccept ==
    [][visits' # visits =>
        \E p \in Workers :
            LET l == loc[p].lounge
                u == loc[p].dec.best_user
            IN /\ loc[p].kind = "verify" /\ pc[p] = "selected"
               /\ l # NoLounge
               /\ loc[p].dec.matches # <<>>
               /\ u = loc[p].dec.matches[1].uid
               /\ 100 * loc[p].dec.best_score >= loc[p].dec.threshold
               /\ \/ /\ Len(visits') = Len(visits) + 1
                     /\ \A i \in DOMAIN visits : visits'[i] = visits[i]
                     /\ visits'[Len(visits')].lounge = l
                     /\ visits'[Len(visits')].user = u
                  \/ /\ Len(visits') = Len(visits)
                     /\ \E i \in PairIds(visits, l, u) :
                            /\ visits' = [visits EXCEPT ![i].out_time = visits'[i].out_time]
                            /\ visits[i].out_time = NULL]_vars

\* an accepted /verify with a lounge has checked its subject in
C20_Witness ==
    \E p \in Workers :
        /\ pc[p] = "v_visited"
        /\ loc[p].lounge # NoLounge
        /\ ret[p] = Returned("Checked in")
        /\ visits # <<>>
        /\ visits[Len(visits)].user = loc[p].dec.best_user
        /\ visits[Len(visits)].lounge = loc[p].lounge

\* C21: no step of sequential or concurrent record_lounge_visit calls
\* deletes a row, changes a row's pair or in_time, or changes an out_time
\* that has been set.
C21_ClosedImmutable ==
    [][/\ Len(visits') >= Len(visits)
       /\ \A i \in DOMAIN visits :
            /\ visits'[i].lounge = visits[i].lounge
            /\ visits'[i].user = visits[i].user
            /\ visits'[i].in_time = visits[i].in_time
            /\ visits[i].out_time # NULL => visits'[i].out_time = visits[i].out_time]_vars

\* the most-recent-record lookup can return row i: no row of its pair has a
\* later in_time
Reachable(rows, i) == i \in LatestIds(rows, rows[i].lounge, rows[i].user)

\* C22: whenever no call is under way, every open row is one the
\* most-recent-record lookup of its pair can return.  (Calls that start
\* later run at a later NOW(): an open row that is behind a later row stays
\* behind it, is never read again and so is never closed, however the
\* accepts that follow are spaced.)
C22_OpenReachable ==
    AllIdle => \A i \in DOMAIN visits : visits[i].out_time = NULL => Reachable(visits, i)

====
